---- MODULE Spec2Model ----
(***************************************************************************)
(* Model of the structurehub sensor ingestion core:                        *)
(*   monitor/decode_payload.py  - the V2 / V3A / V4 payload decoder        *)
(*   monitor/battery.py         - the battery voltage to percent curve     *)
(*   monitor/management/commands/ble_worker.py - the ingestion pipeline    *)
(* Byte buffers are sequences of 0..255 (1-based here, 0-based offsets in  *)
(* the operators, as in the source).                                       *)
(***************************************************************************)
EXTENDS Integers, Sequences, FiniteSets, TLC

VARIABLES
    mfg,               \* the manufacturer bytes handed to decode_payload
    enc,               \* field values the buffer was packed from (RoundTrip inputs)
    decoded,           \* decode_payload(mfg)
    decoded_prefixed,  \* decode_payload(FF FF + mfg)
    volts,             \* <<v1, v2>>: two cell voltages, in millivolts
    pct,               \* <<p1, p2>>: voltage_to_percent of each
    \* ble_worker.py, Command._run
    scanning,          \* the scanner delivers advertisements to on_detect
    q,                 \* asyncio.Queue(maxsize=queue_max): the queued rows
    unfinished,        \* the queue's count of rows put and not yet task_done
    last_seq_seen,     \* dedup cache, <<source, seq>> pairs in insertion order
    buffer,            \* the batch buffer
    elapsed,           \* now - last_flush in ticks, saturating at flush_interval
    cwait,             \* ticks until the consumer's wait_for times out
    msleep,            \* ticks until the main loop's sleep ends
    consumer_pc,       \* db_writer: "wait", "hold", "flush_item", "flush_timeout", "cancelled"
    item,              \* the row db_writer got from the queue and has not appended yet
    main_pc,           \* _run: "start", "sleep", "flush", "stopping", "join", "final_flush", "cancel", "done"
    writes,            \* every bulk write handed to asyncio.to_thread, in order
    nrows,             \* number of rows on_detect has built; a row's id is its rank
    dropped,           \* ids of the rows dropped because the queue was full
    pending_at_shutdown,  \* ids of the rows queued, held or buffered when shutdown was requested
    writes_at_shutdown    \* number of bulk writes issued before shutdown was requested

decodeVars == <<mfg, enc, decoded, decoded_prefixed>>

batteryVars == <<volts, pct>>

pipeVars == <<scanning, q, unfinished, last_seq_seen, buffer, elapsed, cwait, msleep,
              consumer_pc, item, main_pc, writes, nrows, dropped,
              pending_at_shutdown, writes_at_shutdown>>

vars == <<decodeVars, batteryVars, pipeVars>>

(***************************************************************************)
(* Bounds of the model.                                                    *)
(***************************************************************************)
MaxBufLen == 28        \* buffers of every length 0..MaxBufLen are decoded
MinMv == 3190          \* lowest voltage fed to the battery curve (mV)
MaxMv == 4210          \* highest voltage fed to the battery curve (mV)
MaxRows == 3           \* rows on_detect builds in one run
queue_max == 2         \* --queue-max
batch_size == 2        \* --batch-size
max_seq_cache == 1     \* --max-seq-cache

(***************************************************************************)
(* decode_payload.py: constants                                            *)
(***************************************************************************)
COMPANY_ID == 65535
PROTOCOL_V2 == 2
PROTOCOL_V3A == 3
PROTOCOL_V4 == 4

_FMT_V2_short_motion == <<"H", "H", "h", "H", "H", "H", "H", "H", "H", "H">>

\* struct format strings, one code per field ("<": little-endian, no padding)
_FMT_V2 == <<"H", "H", "h", "H", "H", "H", "H", "H", "I", "I">>

_FMT_V3A_wide_motion == <<"H", "H", "h", "H", "H", "H", "H", "H", "I", "I", "B", "B", "H", "h">>

_FMT_V3A == <<"H", "H", "h", "H", "H", "H", "H", "H", "H", "H", "B", "B", "H", "h">>

_FMT_V4_NOPREFIX == <<"H", "B", "h", "H", "H", "H", "H", "H", "H", "H", "B", "B", "H", "h">>

\* "<H " + _FMT_V4_NOPREFIX[1:]  (the slice drops the "<")
_FMT_V4_PREFIXED == <<"H">> \o _FMT_V4_NOPREFIX

(***************************************************************************)
(* The struct module, as far as decode_payload uses it.                    *)
(***************************************************************************)
SizeOf(c) == CASE c = "B" -> 1
               [] c = "H" -> 2
               [] c = "h" -> 2
               [] c = "I" -> 4

RECURSIVE calcsize(_)
calcsize(fmt) == IF fmt = <<>> THEN 0 ELSE SizeOf(Head(fmt)) + calcsize(Tail(fmt))

_LEN_V2 == calcsize(_FMT_V2)
_LEN_V3A == calcsize(_FMT_V3A)
_LEN_V4_NOPREFIX == calcsize(_FMT_V4_NOPREFIX)
_LEN_V4_PREFIXED == calcsize(_FMT_V4_PREFIXED)

U8(b, off) == b[off + 1]

U16(b, off) == b[off + 1] + 256 * b[off + 2]

S16_unsigned(b, off) == U16(b, off)

\* "h": two's complement signed 16 bit
S16(b, off) == IF U16(b, off) >= 32768 THEN U16(b, off) - 65536 ELSE U16(b, off)

\* "I": unsigned 32 bit, kept as two 16-bit limbs (value = lo + 65536 * hi)
U32(b, off) == [lo |-> U16(b, off), hi |-> U16(b, off + 2)]

FieldAt(c, b, off) == CASE c = "B" -> U8(b, off)
                        [] c = "H" -> U16(b, off)
                        [] c = "h" -> S16(b, off)
                        [] c = "I" -> U32(b, off)

OffsetOf(fmt, i) == calcsize(SubSeq(fmt, 1, i - 1))

StructError == [ok |-> FALSE, vals |-> <<>>]

\* struct.unpack_from(fmt, buffer, offset): struct.error when the buffer is too short
unpack_from(fmt, b, off) ==
    IF Len(b) - off < calcsize(fmt)
    THEN StructError
    ELSE [ok |-> TRUE,
          vals |-> [i \in 1..Len(fmt) |-> FieldAt(fmt[i], b, off + OffsetOf(fmt, i))]]

\* struct.unpack(fmt, buffer): struct.error unless the length is exactly calcsize(fmt)
unpack(fmt, b) ==
    IF Len(b) # calcsize(fmt) THEN StructError ELSE unpack_from(fmt, b, 0)

(***************************************************************************)
(* Results of decode_payload.  A float produced by float(x) / d is kept as *)
(* the exact quotient <<x, d>>: for 16-bit x and d in {10, 100} two        *)
(* quotients are the same double exactly when they are the same pair.      *)
(***************************************************************************)
None == [kind |-> "None"]
Raised == [kind |-> "Raise"]     \* an exception leaves decode_payload
Pending == [kind |-> "Pending"]  \* decode_payload has not been called yet

FloatDiv(x, d) == <<x, d>>

DecodedV2(t) ==
    [kind |-> "V2", protocol |-> t[2],
     temp_c |-> FloatDiv(t[3], 100), hum_pct |-> FloatDiv(t[4], 100),
     press_hpa |-> FloatDiv(t[5], 10), batt_mv |-> t[6], flags |-> t[7],
     seq |-> t[8], motion0 |-> t[9], motion1 |-> t[10]]

DecodedV3A(t) ==
    [kind |-> "V3A", protocol |-> t[2],
     temp_c |-> FloatDiv(t[3], 100), hum_pct |-> FloatDiv(t[4], 100),
     press_hpa |-> FloatDiv(t[5], 10), batt_mv |-> t[6], flags |-> t[7],
     seq |-> t[8], motion0 |-> t[9], motion1 |-> t[10],
     batt_pct |-> t[11], uptime_min |-> t[13], dew_point_c |-> FloatDiv(t[14], 100)]

ClampLocation_unclamped(location) == location

\* if location > 3: location = 3
ClampLocation(location) == IF location > 3 THEN 3 ELSE location

\* t: the tuple unpacked with _FMT_V4_NOPREFIX (protocol first)
DecodedV4(t) ==
    [kind |-> "V4", protocol |-> t[1], location |-> ClampLocation(t[2]),
     temp_c |-> FloatDiv(t[3], 100), hum_pct |-> FloatDiv(t[4], 100),
     press_hpa |-> FloatDiv(t[5], 10), batt_mv |-> t[6], flags |-> t[7],
     seq |-> t[8], motion0 |-> t[9], motion1 |-> t[10],
     batt_pct |-> t[11], uptime_min |-> t[13], dew_point_c |-> FloatDiv(t[14], 100)]

(***************************************************************************)
(* decode_payload, branch by branch in the order of the source.            *)
(***************************************************************************)
\* if not mfg or len(mfg) < 2
TooShortForTag(b) == b = <<>> \/ Len(b) < 2

IsV4Unprefixed_after_company(b) ==
    /\ Len(b) = _LEN_V4_NOPREFIX
    /\ U16(b, 0) = COMPANY_ID
    /\ U16(b, 2) = PROTOCOL_V4

\* len(mfg) == _LEN_V4_NOPREFIX and the first word is PROTOCOL_V4
IsV4Unprefixed(b) ==
    /\ Len(b) = _LEN_V4_NOPREFIX
    /\ unpack_from(<<"H">>, b, 0).vals[1] = PROTOCOL_V4

TooShortForHeader_unguarded(b) == FALSE

\* "Need at least companyId + protocol for prefixed formats"
TooShortForHeader(b) == Len(b) < 4

CompanyOk_any(company) == TRUE

CompanyOk(company) == company = COMPANY_ID

V2LengthOk_atleast(b) == Len(b) >= _LEN_V2

V2LengthOk(b) == Len(b) = _LEN_V2

V3ALengthOk(b) == Len(b) = _LEN_V3A

IsV4Prefixed(proto, b) == proto = PROTOCOL_V4 /\ Len(b) = _LEN_V4_PREFIXED

SkipCompany_kept(vals) == vals

\* the prefixed tuple starts with company, which DecodedV4 does not take
SkipCompany(vals) == Tail(vals)

decode_prefixed_formats(b) ==
    LET hdr == unpack_from(<<"H", "H">>, b, 0) IN
    IF ~hdr.ok THEN Raised
    ELSE IF ~CompanyOk(hdr.vals[1]) THEN None
    ELSE LET proto == hdr.vals[2] IN
         IF IsV4Prefixed(proto, b)
         THEN LET u == unpack(_FMT_V4_PREFIXED, b) IN
              IF u.ok THEN DecodedV4(SkipCompany(u.vals)) ELSE Raised
         ELSE IF proto = PROTOCOL_V2
         THEN IF ~V2LengthOk(b) THEN None
              ELSE LET u == unpack(_FMT_V2, b) IN
                   IF u.ok THEN DecodedV2(u.vals) ELSE Raised
         ELSE IF proto = PROTOCOL_V3A
         THEN IF ~V3ALengthOk(b) THEN None
              ELSE LET u == unpack(_FMT_V3A, b) IN
                   IF u.ok THEN DecodedV3A(u.vals) ELSE Raised
         ELSE None

decode_payload(b) ==
    IF TooShortForTag(b) THEN None
    ELSE IF IsV4Unprefixed(b)
    THEN LET u == unpack(_FMT_V4_NOPREFIX, b) IN
         IF u.ok THEN DecodedV4(u.vals) ELSE Raised
    ELSE IF TooShortForHeader(b) THEN None
    ELSE decode_prefixed_formats(b)

(***************************************************************************)
(* ble_worker.py: the company prefix the worker puts back in front of the  *)
(* manufacturer bytes, (0xFFFF).to_bytes(2, "little").                     *)
(***************************************************************************)
_COMPANY_PREFIX == <<COMPANY_ID % 256, COMPANY_ID \div 256>>

(***************************************************************************)
(* Inputs of the decoder: buffers of every length 0..MaxBufLen whose first *)
(* two 16-bit words, location byte and payload bytes range over the values *)
(* the branches of decode_payload distinguish, and buffers packed from     *)
(* field values with the variant-2 layout.                                 *)
(***************************************************************************)
FirstWords == {COMPANY_ID, PROTOCOL_V4, PROTOCOL_V2, 255, 1028}
SecondLow == {0, 1, 2, 3, 4, 5, 255}
SecondHigh == {0, 255}
FifthBytes == {0, 1, 2, 3, 4, 5, 255}
FillSeeds == {0, 131}

BufferOf(n, w0, lo, hi, b4, seed) ==
    [i \in 1..n |->
        CASE i = 1 -> w0 % 256
          [] i = 2 -> w0 \div 256
          [] i = 3 -> lo
          [] i = 4 -> hi
          [] i = 5 -> b4
          [] OTHER -> (seed + 37 * i) % 256]

Buffers ==
    {BufferOf(n, w0, lo, hi, b4, seed) :
        n \in 0..MaxBufLen, w0 \in FirstWords, lo \in SecondLow,
        hi \in SecondHigh, b4 \in FifthBytes, seed \in FillSeeds}

NoFields == [kind |-> "none"]

V2Fields ==
    [kind : {"v2"},
     tempC_x100 : {-32768, -4000, -1, 0, 2234, 32767},
     hum_x100 : {0, 5522, 65535},
     press_x10 : {0, 10132},
     batt_mv : {0, 3700},
     flags : {0, 165},
     seq : {7, 256, 65535},
     motion0 : {[lo |-> 0, hi |-> 0], [lo |-> 65535, hi |-> 65535]},
     motion1 : {[lo |-> 1, hi |-> 0], [lo |-> 9, hi |-> 32768]}]

LE16(x) == <<x % 256, (x \div 256) % 256>>

\* two's complement of a signed 16-bit value
ToU16(x) == (x + 65536) % 65536

LE32(m) == LE16(m.lo) \o LE16(m.hi)

\* struct.pack(_FMT_V2, COMPANY_ID, PROTOCOL_V2, ...)
PackV2(f) ==
    LE16(COMPANY_ID) \o LE16(PROTOCOL_V2) \o LE16(ToU16(f.tempC_x100))
    \o LE16(f.hum_x100) \o LE16(f.press_x10) \o LE16(f.batt_mv)
    \o LE16(f.flags) \o LE16(f.seq) \o LE32(f.motion0) \o LE32(f.motion1)

(***************************************************************************)
(* battery.py.  Voltages are in millivolts: v stands for the double        *)
(* float(v) / 1000.0 and the anchors of _CURVE for their literals, so the  *)
(* comparisons of the source are the comparisons of the integers.          *)
(***************************************************************************)
_CURVE == << <<4200, 100>>, <<4100, 90>>, <<4000, 80>>, <<3920, 70>>,
             <<3850, 60>>, <<3790, 50>>, <<3740, 40>>, <<3700, 30>>,
             <<3650, 20>>, <<3550, 10>>, <<3400, 5>>, <<3300, 2>>,
             <<3200, 0>> >>

Min(a, b) == IF a < b THEN a ELSE b
Max(a, b) == IF a > b THEN a ELSE b

clamp(v, lo, hi) == Max(lo, Min(hi, v))

\* t = (a.v - v) / (a.v - b.v), as the exact quotient <<numerator, denominator>>
SegmentT_from_low(av, bv, v) == <<v - bv, av - bv>>

SegmentT(av, bv, v) == <<av - v, av - bv>>

lerp_swapped(a, b, t) == <<b * t[2] + (a - b) * t[1], t[2]>>

\* a + (b - a) * t, exact
lerp(a, b, t) == <<a * t[2] + (b - a) * t[1], t[2]>>

\* int(x): truncation toward zero of the quotient n / d, d > 0
IntTrunc(n, d) == IF n >= 0 THEN n \div d ELSE -((-n) \div d)

\* int(pf + 0.5).  pf + 0.5 = (2n + d) / 2d.  In double arithmetic t and the
\* product carry a rounding error far below 1 / 2d, so the result is the
\* exact one unless pf + 0.5 is exactly an integer k, where the computed sum
\* may fall just below k and truncate to k - 1.
RoundHalfUp(pf) ==
    LET n == 2 * pf[1] + pf[2]
        d == 2 * pf[2]
    IN  IF n % d = 0 /\ pf[1] % pf[2] # 0
        THEN {IntTrunc(n, d) - 1, IntTrunc(n, d)}
        ELSE {IntTrunc(n, d)}

InSegment_open(v, av, bv) == v < av /\ v > bv

\* if v <= av and v >= bv
InSegment(v, av, bv) == v <= av /\ v >= bv

RECURSIVE ScanCurve(_, _)
ScanCurve(v, i) ==
    IF i > Len(_CURVE) - 1
    THEN {IF v >= 4200 THEN 100 ELSE 0}
    ELSE LET av == _CURVE[i][1]
             ap == _CURVE[i][2]
             bv == _CURVE[i + 1][1]
             bp == _CURVE[i + 1][2]
         IN  IF InSegment(v, av, bv)
             THEN {Max(0, Min(100, p)) : p \in RoundHalfUp(lerp(ap, bp, SegmentT(av, bv, v)))}
             ELSE ScanCurve(v, i + 1)

\* the set of results the double arithmetic can give for v (one element
\* except at exact halves)
voltage_to_percent(v) == ScanCurve(clamp(v, 3200, 4200), 1)

(***************************************************************************)
(* ble_worker.py, Command._run.  Time is counted in ticks of half a second: *)
(* the default --flush-ms 500 is 1 tick and the main loop's                *)
(* asyncio.sleep(1.0) is 2.  A timer never fires early and may fire late.  *)
(***************************************************************************)
flush_interval == 1

MainSleepTicks == 2

Seqs == {1, 2}

\* a variant-4 payload as the scanner delivers it (no company prefix)
PackV4(seq) ==
    LE16(PROTOCOL_V4) \o <<1>> \o LE16(ToU16(2234)) \o LE16(5522)
    \o LE16(10132) \o LE16(3700) \o LE16(0) \o LE16(seq) \o LE16(0) \o LE16(0)
    \o <<80, 0>> \o LE16(12) \o LE16(ToU16(1000))

\* a variant-2 payload as the scanner delivers it: the company id stripped
StrippedV2(seq) ==
    SubSeq(PackV2([kind |-> "v2", tempC_x100 |-> -4000, hum_x100 |-> 5522,
                   press_x10 |-> 10132, batt_mv |-> 3700, flags |-> 0, seq |-> seq,
                   motion0 |-> [lo |-> 0, hi |-> 0], motion1 |-> [lo |-> 1, hi |-> 0]]),
           3, _LEN_V2)

\* md.get(_COMPANY_ID): <<>> stands for an advertisement without our company id
AdPayloads == {PackV4(s) : s \in Seqs} \cup {StrippedV2(1), <<1, 2, 3>>, <<>>}

\* the advertisements the scanner delivers, <<_pick_address(device), md.get(_COMPANY_ID)>>:
\* sensor "a" with two sequence numbers and both layouts, sensor "b", a device
\* without address, an unknown payload and one without our company id
Advertisements ==
    {<<"a", PackV4(1)>>, <<"a", PackV4(2)>>, <<"a", StrippedV2(1)>>, <<"b", PackV4(1)>>,
     <<"", PackV4(1)>>, <<"a", <<1, 2, 3>> >>, <<"b", <<>> >>}

_decode_from_mfg_value_direct_only(raw) == decode_payload(raw)

_decode_from_mfg_value(raw) ==
    IF decode_payload(raw) # None
    THEN decode_payload(raw)
    ELSE decode_payload(_COMPANY_PREFIX \o raw)

\* _decode_from_mfg_value of each payload the scanner delivers
AdDecoded == [payload \in AdPayloads |-> _decode_from_mfg_value(payload)]

HasKey(cache, source) == \E i \in 1..Len(cache) : cache[i][1] = source

\* last_seq_seen.get(source)
Lookup(cache, source) == cache[CHOOSE i \in 1..Len(cache) : cache[i][1] = source][2]

_is_duplicate_any_seq(cache, source, seq) == HasKey(cache, source)

_is_duplicate(cache, source, seq) == HasKey(cache, source) /\ Lookup(cache, source) = seq

\* last_seq_seen[source] = seq: a known key keeps its place, a new one goes last
SetKey(cache, source, seq) ==
    IF HasKey(cache, source)
    THEN [i \in 1..Len(cache) |-> IF cache[i][1] = source THEN <<source, seq>> ELSE cache[i]]
    ELSE Append(cache, <<source, seq>>)

\* if len(last_seq_seen) > max_seq_cache
CacheOverLimit(cache) == Len(cache) > max_seq_cache

\* pops the first key in insertion order when over the limit, then stores
_remember_seq(cache, source, seq) ==
    SetKey(IF CacheOverLimit(cache) THEN Tail(cache) ELSE cache, source, seq)

put_nowait_unbounded(queue, row) == [ok |-> TRUE, q |-> Append(queue, row)]

\* q.put_nowait(row): QueueFull when the queue holds maxsize rows
put_nowait(queue, row) ==
    IF Len(queue) >= queue_max
    THEN [ok |-> FALSE, q |-> queue]
    ELSE [ok |-> TRUE, q |-> Append(queue, row)]

FlushDecision_forced_first(force, buf, el) ==
    IF force THEN "write"
    ELSE IF buf = <<>> THEN "reset"
    ELSE IF Len(buf) < batch_size /\ el < flush_interval THEN "skip"
    ELSE "write"

FlushDecision_time_only(force, buf, el) ==
    IF buf = <<>> THEN "reset"
    ELSE IF ~force /\ el < flush_interval THEN "skip"
    ELSE "write"

FlushDecision_unforced(force, buf, el) ==
    IF buf = <<>> THEN "reset"
    ELSE IF Len(buf) < batch_size /\ el < flush_interval THEN "skip"
    ELSE "write"

FlushDecision_size_only(force, buf, el) ==
    IF buf = <<>> THEN "reset"
    ELSE IF ~force /\ Len(buf) < batch_size THEN "skip"
    ELSE "write"

FlushDecision_late(force, buf, el) ==
    IF buf = <<>> THEN "reset"
    ELSE IF ~force /\ Len(buf) <= batch_size /\ el < flush_interval THEN "skip"
    ELSE "write"

\* flush_buffer_if_needed up to its await: "reset" (empty buffer: only
\* last_flush = now), "skip" (thresholds not reached) or "write"
FlushDecision(force, buf, el) ==
    IF buf = <<>> THEN "reset"
    ELSE IF ~force /\ Len(buf) < batch_size /\ el < flush_interval THEN "skip"
    ELSE "write"

OnWriteError_requeue(buf, rows) == rows \o buf

\* except Exception: the error is reported, the rows are not put back
OnWriteError(buf, rows) == buf

PipeInit ==
    /\ scanning = FALSE
    /\ q = <<>>
    /\ unfinished = 0
    /\ last_seq_seen = <<>>
    /\ buffer = <<>>
    /\ elapsed = 0
    /\ cwait = flush_interval
    /\ msleep = 0
    /\ consumer_pc = "wait"
    /\ item = <<>>
    /\ main_pc = "start"
    /\ writes = <<>>
    /\ nrows = 0
    /\ dropped = {}
    /\ pending_at_shutdown = {}
    /\ writes_at_shutdown = 0

(***************************************************************************)
(* Specification of the decoder: decode_payload applied to a buffer and to *)
(* the same buffer behind the company prefix.                              *)
(***************************************************************************)
DecodeInit ==
    /\ \/ mfg \in Buffers /\ enc = NoFields
       \/ \E f \in V2Fields : enc = f /\ mfg = PackV2(f)
    /\ decoded = Pending
    /\ decoded_prefixed = Pending
    /\ volts = <<0, 0>>
    /\ pct = <<>>
    /\ PipeInit

Decode ==
    /\ decoded = Pending
    /\ decoded' = decode_payload(mfg)
    /\ UNCHANGED <<mfg, enc, decoded_prefixed, batteryVars, pipeVars>>

DecodePrefixed ==
    /\ decoded_prefixed = Pending
    /\ decoded_prefixed' = decode_payload(_COMPANY_PREFIX \o mfg)
    /\ UNCHANGED <<mfg, enc, decoded, batteryVars, pipeVars>>

DecodeNext == Decode \/ DecodePrefixed

DecodeSpec == DecodeInit /\ [][DecodeNext]_vars

(***************************************************************************)
(* Specification of the battery curve: voltage_to_percent applied to two   *)
(* voltages v1 <= v2.                                                      *)
(***************************************************************************)
BatteryInit ==
    /\ mfg = <<>>
    /\ enc = NoFields
    /\ decoded = Pending
    /\ decoded_prefixed = Pending
    /\ volts \in {v \in (MinMv..MaxMv) \X (MinMv..MaxMv) : v[1] <= v[2]}
    /\ pct = <<>>
    /\ PipeInit

Evaluate ==
    /\ pct = <<>>
    /\ \E p1 \in voltage_to_percent(volts[1]), p2 \in voltage_to_percent(volts[2]) :
          /\ volts[1] = volts[2] => p1 = p2
          /\ pct' = <<p1, p2>>
    /\ UNCHANGED <<decodeVars, volts, pipeVars>>

BatteryNext == Evaluate

BatterySpec == BatteryInit /\ [][BatteryNext]_vars

(***************************************************************************)
(* Specification of the pipeline: the scanner callback on_detect, the      *)
(* consumer task db_writer, the main coroutine _run with its shutdown      *)
(* sequence, the worker threads of asyncio.to_thread, and the clock.       *)
(***************************************************************************)
Ids(rows) == {rows[i].id : i \in 1..Len(rows)}

NewWrite(rows, by) == [rows |-> rows, by |-> by, state |-> "running", awaited |-> TRUE]

StartFlush_buffer_kept(force, buf, by) ==
    LET d == FlushDecision(force, buf, elapsed) IN
    /\ buffer' = buf
    /\ elapsed' = IF d = "skip" THEN elapsed ELSE 0
    /\ writes' = IF d = "write" THEN Append(writes, NewWrite(buf, by)) ELSE writes

\* flush_buffer_if_needed(force) called with the batch buffer buf, up to its
\* await asyncio.to_thread(_write_rows)
StartFlush(force, buf, by) ==
    LET d == FlushDecision(force, buf, elapsed) IN
    /\ buffer' = IF d = "write" THEN <<>> ELSE buf
    /\ elapsed' = IF d = "skip" THEN elapsed ELSE 0
    /\ writes' = IF d = "write" THEN Append(writes, NewWrite(buf, by)) ELSE writes

on_detect_remember_after_put(source, payload) ==
    LET d == AdDecoded[payload]
        row == [id |-> nrows + 1, source |-> source, seq |-> d.seq]
        put == put_nowait(q, row)
        same == [outcome |-> "no_mfg", seq |-> 0, cache |-> last_seq_seen, q |-> q]
    IN  IF payload = <<>> THEN same
        ELSE IF source = "" THEN [same EXCEPT !.outcome = "no_source"]
        ELSE IF d = None THEN [same EXCEPT !.outcome = "undecoded"]
        ELSE IF _is_duplicate(last_seq_seen, source, d.seq)
        THEN [same EXCEPT !.outcome = "dup", !.seq = d.seq]
        ELSE [outcome |-> IF put.ok THEN "enqueued" ELSE "full",
              seq |-> d.seq,
              cache |-> IF put.ok THEN _remember_seq(last_seq_seen, source, d.seq)
                        ELSE last_seq_seen,
              q |-> put.q]

\* what on_detect does with an advertisement, and the cache and queue it leaves
on_detect(source, payload) ==
    LET d == AdDecoded[payload]
        row == [id |-> nrows + 1, source |-> source, seq |-> d.seq]
        put == put_nowait(q, row)
        same == [outcome |-> "no_mfg", seq |-> 0, cache |-> last_seq_seen, q |-> q]
    IN  IF payload = <<>> THEN same
        ELSE IF source = "" THEN [same EXCEPT !.outcome = "no_source"]
        ELSE IF d = None THEN [same EXCEPT !.outcome = "undecoded"]
        ELSE IF _is_duplicate(last_seq_seen, source, d.seq)
        THEN [same EXCEPT !.outcome = "dup", !.seq = d.seq]
        ELSE [outcome |-> IF put.ok THEN "enqueued" ELSE "full",
              seq |-> d.seq,
              cache |-> _remember_seq(last_seq_seen, source, d.seq),
              q |-> put.q]

OnDetect(source, payload) ==
    /\ scanning
    /\ nrows < MaxRows
    /\ LET r == on_detect(source, payload) IN
       /\ last_seq_seen' = r.cache
       /\ q' = r.q
       /\ unfinished' = IF r.outcome = "enqueued" THEN unfinished + 1 ELSE unfinished
       /\ dropped' = IF r.outcome = "full" THEN dropped \cup {nrows + 1} ELSE dropped
       /\ nrows' = IF r.outcome \in {"enqueued", "full"} THEN nrows + 1 ELSE nrows
    /\ UNCHANGED <<scanning, buffer, elapsed, cwait, msleep, consumer_pc, item, main_pc,
                   writes, pending_at_shutdown, writes_at_shutdown>>
    /\ UNCHANGED <<decodeVars, batteryVars>>

\* db_writer: q.get() hands over the oldest queued row
ConsumerGet ==
    /\ consumer_pc = "wait"
    /\ q # <<>>
    /\ item' = <<Head(q)>>
    /\ q' = Tail(q)
    /\ consumer_pc' = "hold"
    /\ cwait' = 0
    /\ UNCHANGED <<scanning, unfinished, last_seq_seen, buffer, elapsed, msleep,
                   main_pc, writes, nrows, dropped, pending_at_shutdown,
                   writes_at_shutdown>>
    /\ UNCHANGED <<decodeVars, batteryVars>>

\* db_writer: buffer.append(item); await flush_buffer_if_needed(force=False);
\* q.task_done() once the flush has returned
ConsumerAppend ==
    /\ consumer_pc = "hold"
    /\ StartFlush(FALSE, buffer \o item, "consumer")
    /\ item' = <<>>
    /\ IF FlushDecision(FALSE, buffer \o item, elapsed) = "write"
       THEN /\ consumer_pc' = "flush_item"
            /\ UNCHANGED <<unfinished, cwait>>
       ELSE /\ consumer_pc' = "wait"
            /\ unfinished' = unfinished - 1
            /\ cwait' = flush_interval
    /\ UNCHANGED <<scanning, q, last_seq_seen, msleep, main_pc, nrows, dropped,
                   pending_at_shutdown, writes_at_shutdown>>
    /\ UNCHANGED <<decodeVars, batteryVars>>

\* db_writer: wait_for timed out; await flush_buffer_if_needed(force=False)
ConsumerTimeout ==
    /\ consumer_pc = "wait"
    /\ cwait = 0
    /\ StartFlush(FALSE, buffer, "consumer")
    /\ IF FlushDecision(FALSE, buffer, elapsed) = "write"
       THEN consumer_pc' = "flush_timeout" /\ UNCHANGED cwait
       ELSE consumer_pc' = "wait" /\ cwait' = flush_interval
    /\ UNCHANGED <<scanning, q, unfinished, last_seq_seen, msleep, item, main_pc, nrows,
                   dropped, pending_at_shutdown, writes_at_shutdown>>
    /\ UNCHANGED <<decodeVars, batteryVars>>

\* _run: await scanner.start()
MainStart ==
    /\ main_pc = "start"
    /\ scanning' = TRUE
    /\ main_pc' = "sleep"
    /\ msleep' = MainSleepTicks
    /\ UNCHANGED <<q, unfinished, last_seq_seen, buffer, elapsed, cwait, consumer_pc, item,
                   writes, nrows, dropped, pending_at_shutdown, writes_at_shutdown>>
    /\ UNCHANGED <<decodeVars, batteryVars>>

\* _run: asyncio.sleep(1.0) is over; await flush_buffer_if_needed(force=False)
MainWake ==
    /\ main_pc = "sleep"
    /\ msleep = 0
    /\ StartFlush(FALSE, buffer, "main")
    /\ IF FlushDecision(FALSE, buffer, elapsed) = "write"
       THEN main_pc' = "flush" /\ UNCHANGED msleep
       ELSE main_pc' = "sleep" /\ msleep' = MainSleepTicks
    /\ UNCHANGED <<scanning, q, unfinished, last_seq_seen, cwait, consumer_pc, item, nrows,
                   dropped, pending_at_shutdown, writes_at_shutdown>>
    /\ UNCHANGED <<decodeVars, batteryVars>>

\* the write the task named by owners is awaiting is no longer awaited
Abandon(ws, owners) ==
    [i \in 1..Len(ws) |->
        IF ws[i].by \in owners /\ ws[i].awaited THEN [ws[i] EXCEPT !.awaited = FALSE] ELSE ws[i]]

\* shutdown request: the main task is cancelled at the await it is suspended
\* in (scanner.start, the sleep, or the to_thread of its own flush)
Shutdown ==
    /\ main_pc \in {"start", "sleep", "flush"}
    /\ main_pc' = "stopping"
    /\ msleep' = 0
    /\ writes' = Abandon(writes, {"main"})
    /\ pending_at_shutdown' = Ids(q) \cup Ids(item) \cup Ids(buffer)
    /\ writes_at_shutdown' = Len(writes)
    /\ UNCHANGED <<scanning, q, unfinished, last_seq_seen, buffer, elapsed, cwait,
                   consumer_pc, item, nrows, dropped>>
    /\ UNCHANGED <<decodeVars, batteryVars>>

\* finally: await scanner.stop()
MainStopScanner ==
    /\ main_pc = "stopping"
    /\ scanning' = FALSE
    /\ main_pc' = "join"
    /\ UNCHANGED <<q, unfinished, last_seq_seen, buffer, elapsed, cwait, msleep, consumer_pc,
                   item, writes, nrows, dropped, pending_at_shutdown,
                   writes_at_shutdown>>
    /\ UNCHANGED <<decodeVars, batteryVars>>

\* finally: q.join() returns; await flush_buffer_if_needed(force=True)
MainJoinFlush ==
    /\ main_pc = "join"
    /\ unfinished = 0
    /\ StartFlush(TRUE, buffer, "final")
    /\ main_pc' = IF FlushDecision(TRUE, buffer, elapsed) = "write" THEN "final_flush" ELSE "cancel"
    /\ UNCHANGED <<scanning, q, unfinished, last_seq_seen, cwait, msleep, consumer_pc, item,
                   nrows, dropped, pending_at_shutdown, writes_at_shutdown>>
    /\ UNCHANGED <<decodeVars, batteryVars>>

\* finally: writer_task.cancel(); await writer_task; _run returns
MainCancelWriter ==
    /\ main_pc = "cancel"
    /\ consumer_pc' = "cancelled"
    /\ cwait' = 0
    /\ writes' = Abandon(writes, {"consumer"})
    /\ main_pc' = "done"
    /\ UNCHANGED <<scanning, q, unfinished, last_seq_seen, buffer, elapsed, msleep,
                   item, nrows, dropped, pending_at_shutdown, writes_at_shutdown>>
    /\ UNCHANGED <<decodeVars, batteryVars>>

\* the thread running _write_rows for writes[i] ends, with the rows written
\* (ok) or with an exception of bulk_create; the coroutine awaiting it, if
\* one still does, goes on
WriteDone(i, ok) ==
    /\ writes[i].state = "running"
    /\ writes' = [writes EXCEPT ![i].state = IF ok THEN "ok" ELSE "failed",
                                ![i].awaited = FALSE]
    /\ buffer' = IF ok \/ ~writes[i].awaited THEN buffer ELSE OnWriteError(buffer, writes[i].rows)
    /\ IF writes[i].awaited /\ writes[i].by = "consumer"
       THEN /\ consumer_pc' = "wait"
            /\ cwait' = flush_interval
            /\ unfinished' = IF consumer_pc = "flush_item" THEN unfinished - 1 ELSE unfinished
       ELSE UNCHANGED <<consumer_pc, cwait, unfinished>>
    /\ IF writes[i].awaited /\ writes[i].by = "main"
       THEN main_pc' = "sleep" /\ msleep' = MainSleepTicks
       ELSE IF writes[i].awaited /\ writes[i].by = "final"
       THEN main_pc' = "cancel" /\ UNCHANGED msleep
       ELSE UNCHANGED <<main_pc, msleep>>
    /\ UNCHANGED <<scanning, q, last_seq_seen, elapsed, item, nrows, dropped,
                   pending_at_shutdown, writes_at_shutdown>>
    /\ UNCHANGED <<decodeVars, batteryVars>>

\* half a second passes: the timers that are armed (the wait_for of a
\* waiting db_writer, the sleep of the main loop) come closer
Tick ==
    /\ main_pc # "done"
    /\ elapsed < flush_interval \/ cwait > 0 \/ msleep > 0
    /\ elapsed' = Min(elapsed + 1, flush_interval)
    /\ cwait' = Max(cwait - 1, 0)
    /\ msleep' = Max(msleep - 1, 0)
    /\ UNCHANGED <<scanning, q, unfinished, last_seq_seen, buffer, consumer_pc, item, main_pc,
                   writes, nrows, dropped, pending_at_shutdown, writes_at_shutdown>>
    /\ UNCHANGED <<decodeVars, batteryVars>>

Init ==
    /\ mfg = <<>>
    /\ enc = NoFields
    /\ decoded = Pending
    /\ decoded_prefixed = Pending
    /\ volts = <<0, 0>>
    /\ pct = <<>>
    /\ PipeInit

Next ==
    \/ \E ad \in Advertisements : OnDetect(ad[1], ad[2])
    \/ ConsumerGet
    \/ ConsumerAppend
    \/ ConsumerTimeout
    \/ MainStart
    \/ MainWake
    \/ Shutdown
    \/ MainStopScanner
    \/ MainJoinFlush
    \/ MainCancelWriter
    \/ \E i \in 1..Len(writes), ok \in BOOLEAN : WriteDone(i, ok)
    \/ Tick

Spec == Init /\ [][Next]_vars

\* The event loop runs every coroutine that can go on, armed timers expire
\* as time passes, and a worker thread ends its write.  No advertisement has
\* to arrive and no shutdown has to be requested.
Fairness ==
    /\ WF_vars(ConsumerGet)
    /\ WF_vars(ConsumerAppend)
    /\ WF_vars(ConsumerTimeout)
    /\ WF_vars(MainStart)
    /\ WF_vars(MainWake)
    /\ WF_vars(MainStopScanner)
    /\ WF_vars(MainJoinFlush)
    /\ WF_vars(MainCancelWriter)
    /\ WF_vars(\E i \in 1..Len(writes), ok \in BOOLEAN : WriteDone(i, ok))
    /\ WF_vars(Tick)

FairSpec == Spec /\ Fairness

(***************************************************************************)
(* Properties of the decoder (checked under DecodeSpec).                   *)
(***************************************************************************)
HasPrefixedTag(b, tag) == Len(b) >= 4 /\ U16(b, 0) = COMPANY_ID /\ U16(b, 2) = tag

HasUnprefixedV4Tag(b) == Len(b) >= 2 /\ U16(b, 0) = PROTOCOL_V4

LayoutLength(tag) == CASE tag = PROTOCOL_V2 -> _LEN_V2
                       [] tag = PROTOCOL_V3A -> _LEN_V3A
                       [] tag = PROTOCOL_V4 -> _LEN_V4_PREFIXED

IsReading(d) == d.kind \in {"V2", "V3A", "V4"}

\* C1: a buffer carrying protocol tag 2, 3 or 4 whose length is not the fixed
\* length of that tag's layout (prefixed, or unprefixed for tag 4) decodes to
\* None, and every reading comes from a buffer of exactly its layout's length.
C1_ExactLength ==
    decoded # Pending =>
        /\ \A tag \in {PROTOCOL_V2, PROTOCOL_V3A, PROTOCOL_V4} :
              HasPrefixedTag(mfg, tag) /\ Len(mfg) # LayoutLength(tag) => decoded = None
        /\ HasUnprefixedV4Tag(mfg) /\ Len(mfg) # _LEN_V4_NOPREFIX => decoded = None
        /\ decoded.kind = "V2" => Len(mfg) = _LEN_V2
        /\ decoded.kind = "V3A" => Len(mfg) = _LEN_V3A
        /\ decoded.kind = "V4" => Len(mfg) \in {_LEN_V4_NOPREFIX, _LEN_V4_PREFIXED}

C1_Witness ==
    /\ HasPrefixedTag(mfg, PROTOCOL_V3A)
    /\ Len(mfg) = _LEN_V3A + 1
    /\ decoded = None

\* C2 as stated: a buffer starting with company id 0xFFFF and protocol tag 2
\* decodes as a variant-2 reading exactly when it is 26 bytes long.
C2_V2At26Bytes ==
    decoded # Pending /\ HasPrefixedTag(mfg, PROTOCOL_V2) =>
        (decoded.kind = "V2" <=> Len(mfg) = 26)

\* C2 amended: a buffer starting with company id 0xFFFF and protocol tag 2
\* decodes as a variant-2 reading exactly when it is 24 bytes long, and
\* decodes to None at every other length.
C2_V2At24Bytes ==
    decoded # Pending /\ HasPrefixedTag(mfg, PROTOCOL_V2) =>
        /\ decoded.kind = "V2" <=> Len(mfg) = 24
        /\ Len(mfg) # 24 => decoded = None

C2_Witness ==
    /\ HasPrefixedTag(mfg, PROTOCOL_V2)
    /\ Len(mfg) = 24
    /\ decoded.kind = "V2"

\* C3: a 25-byte buffer decodes as a variant-4 reading exactly when its first
\* 16-bit word is 0x0004, whatever bytes 2-3 hold (the company sentinel
\* included).
C3_UnprefixedV4First ==
    decoded # Pending /\ Len(mfg) = 25 =>
        (decoded.kind = "V4" <=> U16(mfg, 0) = 4)

C3_Witness ==
    /\ Len(mfg) = 25
    /\ U16(mfg, 0) = 4
    /\ U16(mfg, 2) = 65535
    /\ decoded.kind = "V4"

\* C4: for a 25-byte unprefixed variant-4 payload, decoding FF FF + payload
\* gives the same variant-4 reading, field for field, as decoding the payload.
C4_PrefixedEqualsUnprefixed ==
    /\ decoded # Pending
    /\ decoded_prefixed # Pending
    /\ Len(mfg) = 25
    /\ U16(mfg, 0) = 4
    => /\ decoded.kind = "V4"
       /\ decoded_prefixed = decoded

C4_Witness ==
    /\ Len(mfg) = 25
    /\ mfg[3] = 5
    /\ decoded.kind = "V4"
    /\ decoded_prefixed.kind = "V4"
    /\ decoded_prefixed.location = 3

\* C5: a buffer that the unprefixed variant-4 rule does not accept and whose
\* leading 16-bit word is not 0xFFFF decodes to None, whatever its protocol
\* tag and length.
C5_WrongCompanyFails ==
    /\ decoded # Pending
    /\ Len(mfg) >= 2
    /\ ~(Len(mfg) = 25 /\ U16(mfg, 0) = 4)
    /\ U16(mfg, 0) # 65535
    => decoded = None

C5_Witness ==
    /\ Len(mfg) = _LEN_V2
    /\ U16(mfg, 0) = 255
    /\ U16(mfg, 2) = PROTOCOL_V2
    /\ decoded = None

\* C6: a variant-4 buffer, prefixed or not, always decodes, with location
\* min(encoded location byte, 3); every variant-4 reading has location 0..3.
C6_LocationClamped ==
    /\ decoded.kind = "V4" => decoded.location \in 0..3
    /\ decoded_prefixed.kind = "V4" => decoded_prefixed.location \in 0..3
    /\ decoded # Pending /\ Len(mfg) = 25 /\ U16(mfg, 0) = 4 =>
          /\ decoded.kind = "V4"
          /\ decoded.location = (IF mfg[3] > 3 THEN 3 ELSE mfg[3])
    /\ decoded # Pending /\ Len(mfg) = 27 /\ HasPrefixedTag(mfg, 4) =>
          /\ decoded.kind = "V4"
          /\ decoded.location = (IF mfg[5] > 3 THEN 3 ELSE mfg[5])

C6_Witness ==
    /\ Len(mfg) = 27
    /\ HasPrefixedTag(mfg, 4)
    /\ mfg[5] = 5
    /\ decoded.kind = "V4"
    /\ decoded.location = 3

\* C7: a buffer packed with the variant-2 layout decodes to a reading with
\* protocol 2 whose integer fields are the packed values, whose scaled fields
\* are packed / 100 (pressure: / 10), and which has no battery-percent,
\* uptime, dew-point or location field.
C7_V2RoundTrip ==
    decoded # Pending /\ enc # NoFields =>
        /\ decoded.kind = "V2"
        /\ decoded.protocol = 2
        /\ decoded.temp_c = <<enc.tempC_x100, 100>>
        /\ decoded.hum_pct = <<enc.hum_x100, 100>>
        /\ decoded.press_hpa = <<enc.press_x10, 10>>
        /\ decoded.batt_mv = enc.batt_mv
        /\ decoded.flags = enc.flags
        /\ decoded.seq = enc.seq
        /\ decoded.motion0 = enc.motion0
        /\ decoded.motion1 = enc.motion1
        /\ DOMAIN decoded \cap {"batt_pct", "uptime_min", "dew_point_c", "location"} = {}

C7_Witness ==
    /\ enc # NoFields
    /\ enc.tempC_x100 = -4000
    /\ enc.hum_x100 = 5522
    /\ enc.press_x10 = 10132
    /\ enc.batt_mv = 3700
    /\ enc.seq = 7
    /\ decoded.kind = "V2"
    /\ decoded.temp_c = <<-4000, 100>>

\* C8: decode_payload never raises: for every buffer, the empty one and those
\* of length 1, 2 and 3 included, the result is one reading variant or None.
C8_NeverRaises ==
    /\ decoded \in {Pending, None} \/ IsReading(decoded)
    /\ decoded_prefixed \in {Pending, None} \/ IsReading(decoded_prefixed)

C8_Witness ==
    /\ Len(mfg) = 3
    /\ U16(mfg, 0) = COMPANY_ID
    /\ decoded = None

(***************************************************************************)
(* Properties of the battery curve (checked under BatterySpec).            *)
(***************************************************************************)
\* C9: voltage_to_percent(4.20) = 100, voltage_to_percent(3.20) = 0 and
\* voltage_to_percent(3.70) = 30.
C9_AnchorsExact ==
    pct # <<>> =>
        \A i \in 1..2 :
            /\ volts[i] = 4200 => pct[i] = 100
            /\ volts[i] = 3200 => pct[i] = 0
            /\ volts[i] = 3700 => pct[i] = 30

C9_Witness ==
    /\ volts = <<3700, 4200>>
    /\ pct = <<30, 100>>

\* C10: for voltages v1 < v2 in [3.20, 4.20] on the millivolt grid,
\* voltage_to_percent(v1) <= voltage_to_percent(v2), also when v1 or v2 is an
\* anchor shared by two segments.
C10_Monotonic ==
    pct # <<>> /\ 3200 <= volts[1] /\ volts[1] < volts[2] /\ volts[2] <= 4200 =>
        pct[1] <= pct[2]

C10_Witness ==
    /\ volts = <<4099, 4100>>
    /\ pct = <<90, 90>>

\* C11: for every input voltage, inside or outside [3.20, 4.20], the result
\* is an integer in 0..100; it is 100 at or above 4.20 V and 0 at or below
\* 3.20 V.
C11_RangeAndSaturation ==
    pct # <<>> =>
        \A i \in 1..2 :
            /\ pct[i] \in 0..100
            /\ volts[i] >= 4200 => pct[i] = 100
            /\ volts[i] <= 3200 => pct[i] = 0

C11_Witness ==
    /\ volts[1] < 3200
    /\ volts[2] > 4200
    /\ pct = <<0, 100>>

\* the words of a 32-bit value, low word first
Limbs(x) == [lo |-> x % 65536, hi |-> x \div 65536]

\* the fields variant 2 and variant 3A have in common before the motion counters
V3ACommonFields ==
    /\ decoded.protocol = 3
    /\ decoded.temp_c = <<S16(mfg, 4), 100>>
    /\ decoded.hum_pct = <<U16(mfg, 6), 100>>
    /\ decoded.press_hpa = <<U16(mfg, 8), 10>>
    /\ decoded.batt_mv = U16(mfg, 10)
    /\ decoded.flags = U16(mfg, 12)
    /\ decoded.seq = U16(mfg, 14)
    /\ "location" \notin DOMAIN decoded

\* C26 as stated: a prefixed buffer with tag 3 decodes as variant 3A
\* exactly at the variant-3A length, and the reading's sensor fields, the
\* motion counters included, come from the offsets and widths of variant 2
\* (motion A: 32 bits at offset 16, motion B: 32 bits at offset 20).
C26_V3ALikeV2 ==
    decoded # Pending =>
        /\ decoded.kind = "V3A" <=> HasPrefixedTag(mfg, 3) /\ Len(mfg) = _LEN_V3A
        /\ decoded.kind = "V3A" =>
              /\ V3ACommonFields
              /\ Limbs(decoded.motion0) = U32(mfg, 16)
              /\ Limbs(decoded.motion1) = U32(mfg, 20)

\* C26 amended: a prefixed buffer with tag 3 decodes as variant 3A exactly
\* when it is 26 bytes long; temperature to sequence come from the offsets
\* and widths of variant 2, the motion counters are 16 bits wide, at offsets
\* 16 and 18, followed by battery percent (u8, offset 20), a reserved byte,
\* uptime minutes (u16, offset 22) and dew point x100 (i16, offset 24); the
\* reading has no location field.
C26_V3ALayout ==
    decoded # Pending =>
        /\ decoded.kind = "V3A" <=> HasPrefixedTag(mfg, 3) /\ Len(mfg) = 26
        /\ decoded.kind = "V3A" =>
              /\ V3ACommonFields
              /\ decoded.motion0 = U16(mfg, 16)
              /\ decoded.motion1 = U16(mfg, 18)
              /\ decoded.batt_pct = U8(mfg, 20)
              /\ decoded.uptime_min = U16(mfg, 22)
              /\ decoded.dew_point_c = <<S16(mfg, 24), 100>>

C26_Witness ==
    /\ HasPrefixedTag(mfg, 3)
    /\ Len(mfg) = 26
    /\ decoded.kind = "V3A"
    /\ decoded.motion0 # 0
    /\ decoded.motion1 = U16(mfg, 18)
    /\ decoded.motion1 # U16(mfg, 20)
    /\ decoded.dew_point_c[1] < 0

(***************************************************************************)
(* Properties of the pipeline (checked under Spec, C15 under FairSpec).    *)
(***************************************************************************)
Running == {i \in 1..Len(writes) : writes[i].state = "running"}

WritesWith(id) == {i \in 1..Len(writes) : id \in Ids(writes[i].rows)}

Held == Ids(q) \cup Ids(item) \cup Ids(buffer)

\* on_detect builds a row for the advertisement (it decodes and is no duplicate)
BuildsRow(ad) == on_detect(ad[1], ad[2]).outcome \in {"enqueued", "full"}

IsDuplicateNow(ad) == on_detect(ad[1], ad[2]).outcome = "dup"

\* C12 as stated: of two advertisements with the same source and sequence
\* number handled one directly after the other, exactly one is accepted: the
\* first one is queued for the batch, and the second one, coming next, is
\* dropped as a duplicate and leaves cache, queue and batch buffer unchanged.
C12_ExactlyOneAccepted ==
    [][\A ad \in Advertisements :
          OnDetect(ad[1], ad[2]) /\ BuildsRow(ad) =>
              /\ (nrows + 1) \in Ids(q')
              /\ IsDuplicateNow(ad)'
              /\ on_detect(ad[1], ad[2])'.cache = last_seq_seen'
              /\ on_detect(ad[1], ad[2])'.q = q']_vars

\* C13: when the queue holds queue_max rows and on_detect handles one more
\* valid advertisement, on_detect returns with the queue unchanged, still
\* queue_max long, and the dropped row is never queued, held, buffered or
\* part of a bulk write.
C13_Backpressure ==
    /\ [](Len(q) <= queue_max)
    /\ [](\A id \in dropped : id \notin Held /\ WritesWith(id) = {})
    /\ [][\A ad \in Advertisements :
             OnDetect(ad[1], ad[2]) /\ BuildsRow(ad) /\ Len(q) = queue_max =>
                 /\ q' = q
                 /\ (nrows + 1) \in dropped'
                 /\ UNCHANGED <<buffer, item, writes, consumer_pc, main_pc>>]_vars

C13_Witness ==
    /\ Len(q) = queue_max
    /\ Ids(q) = {1, 2}
    /\ dropped = {3}
    /\ nrows = 3

\* C14: while the batch is below batch_size and the flush interval has not
\* elapsed, appending a row issues no write; the append that brings the
\* batch to batch_size issues exactly one bulk write, holding all batch_size
\* rows in order, and leaves the batch buffer empty.
C14_FlushBySize ==
    [][ConsumerAppend =>
          /\ Len(buffer) + 1 < batch_size /\ elapsed < flush_interval =>
                /\ writes' = writes
                /\ buffer' = buffer \o item
          /\ Len(buffer) + 1 = batch_size =>
                /\ Len(writes') = Len(writes) + 1
                /\ writes'[Len(writes')].rows = buffer \o item
                /\ SubSeq(writes', 1, Len(writes)) = writes
                /\ buffer' = <<>>]_vars

C14_Witness ==
    /\ writes # <<>>
    /\ writes[Len(writes)].by = "consumer"
    /\ Len(writes[Len(writes)].rows) = batch_size
    /\ consumer_pc = "flush_item"
    /\ buffer = <<>>
    /\ elapsed = 0

\* C15: while only one row has been accepted, at most one bulk write is
\* issued and it holds exactly that row; no flush check writes it before
\* the interval has elapsed (batch_size > 1), the first flush check after the
\* interval has elapsed writes it, whichever of the consumer's timeout and
\* the main loop makes it, and if no further row arrives it is written.
OnlyRow == <<[id |-> 1, source |-> "a", seq |-> 1]>>

C15_FlushByTime ==
    /\ [](nrows = 1 /\ dropped = {} =>
            /\ Len(writes) <= 1
            /\ \A i \in 1..Len(writes) : Ids(writes[i].rows) = {1} /\ Len(writes[i].rows) = 1)
    /\ [][(ConsumerTimeout \/ MainWake) /\ buffer # <<>> =>
             IF elapsed >= flush_interval \/ Len(buffer) >= batch_size
             THEN buffer' = <<>> /\ writes' = Append(writes, writes'[Len(writes')])
                  /\ writes'[Len(writes')].rows = buffer
             ELSE buffer' = buffer /\ writes' = writes]_vars
    /\ (nrows = 1 /\ Len(buffer) = 1) ~> (Len(writes) = 1 \/ nrows > 1)

C15_Witness ==
    /\ nrows = 1
    /\ Len(writes) = 1
    /\ writes[1].rows = OnlyRow
    /\ writes[1].by = "consumer"
    /\ consumer_pc = "flush_timeout"

\* C16 as stated: when N rows are queued, held or buffered at the shutdown
\* request, shutdown issues exactly one more bulk write and it holds all N.
C16_OneFinalWrite ==
    main_pc = "done" /\ pending_at_shutdown # {} =>
        /\ Len(writes) = writes_at_shutdown + 1
        /\ pending_at_shutdown \subseteq Ids(writes[Len(writes)].rows)

\* C16 amended: when _run finishes, each of the N rows that were queued,
\* held or buffered at the shutdown request is part of exactly one bulk
\* write, issued after the request (by the consumer while it drains the
\* queue or by the forced final flush), and queue and batch buffer are empty.
C16_AllDrained ==
    main_pc = "done" =>
        /\ \A id \in pending_at_shutdown :
              /\ Cardinality(WritesWith(id)) = 1
              /\ \A i \in WritesWith(id) : i > writes_at_shutdown
        /\ Held = {}

C16_Witness ==
    /\ main_pc = "done"
    /\ Cardinality(pending_at_shutdown) = 2
    /\ Len(writes) = writes_at_shutdown + 2
    /\ writes[Len(writes)].by = "final"

\* C17 as stated: when _run finishes, no bulk write is still in flight.
C17_NoWriteInFlightWhenStopped ==
    main_pc = "done" => Running = {}

\* C18 as stated: at most one bulk write is in flight at a time.
C18_OneFlushInFlight ==
    Cardinality(Running) <= 1

\* C19: when a bulk write fails, its rows are not written again and not put
\* back into the batch buffer or the queue, the coroutine that awaited it
\* goes on (the consumer back to waiting on the queue, the main loop back to
\* sleep, the shutdown to its next step), and nothing else stops.
C19_StorageFailure ==
    /\ [](\A i \in 1..Len(writes) : writes[i].state = "failed" =>
            \A id \in Ids(writes[i].rows) : id \notin Held /\ WritesWith(id) = {i})
    /\ [][\A i \in 1..Len(writes) :
             writes[i].state = "running" /\ Len(writes') = Len(writes)
             /\ writes'[i].state = "failed" =>
                 /\ UNCHANGED <<q, item, buffer>>
                 /\ consumer_pc' = IF writes[i].awaited /\ writes[i].by = "consumer"
                                   THEN "wait" ELSE consumer_pc
                 /\ main_pc' = IF writes[i].awaited /\ writes[i].by = "main" THEN "sleep"
                               ELSE IF writes[i].awaited /\ writes[i].by = "final" THEN "cancel"
                               ELSE main_pc]_vars

C19_Witness ==
    /\ Len(writes) = 2
    /\ writes[1].state = "failed"
    /\ writes[1].by = "consumer"
    /\ writes[2].by = "consumer"
    /\ writes[2].state = "ok"
    /\ main_pc = "sleep"

\* C20 as stated: the dedup cache never holds more than max_seq_cache entries.
C20_CacheBounded ==
    Len(last_seq_seen) <= max_seq_cache

\* C21 as stated: only the consumer changes the dedup cache and the batch
\* buffer; no step of on_detect writes the cache and no step of the main
\* scan loop replaces or appends to the batch buffer.
C21_ConsumerOwnsCacheAndBuffer ==
    [][/\ (\E ad \in Advertisements : OnDetect(ad[1], ad[2])) =>
              UNCHANGED <<last_seq_seen, buffer>>
       /\ MainWake => UNCHANGED <<last_seq_seen, buffer>>]_vars

\* C22 as stated: while a bulk write is in flight the consumer is not held
\* up by it: it is waiting on the queue or has just taken a row from it.
C22_ConsumerNotStalled ==
    Running # {} /\ consumer_pc # "cancelled" => consumer_pc \in {"wait", "hold"}

\* the rows of a bulk write are in the order in which they were appended:
\* the queue is first-in first-out and ids are given in the order of arrival
InAppendOrder(rows) == \A i, j \in 1..Len(rows) : i < j => rows[i].id < rows[j].id

\* C23: every row is in at most one bulk write and at most once in it, no
\* row is in the batch buffer and in a bulk write at the same time, and the
\* rows of a bulk write are in the order of their appends, however the
\* flush checks of the consumer and of the main loop interleave.
C23_AtMostOnce ==
    /\ \A i, j \in 1..Len(writes) : i # j => Ids(writes[i].rows) \cap Ids(writes[j].rows) = {}
    /\ \A i \in 1..Len(writes) :
          /\ Ids(writes[i].rows) \cap Held = {}
          /\ InAppendOrder(writes[i].rows)
    /\ InAppendOrder(buffer)

C23_Witness ==
    /\ Len(writes) = 2
    /\ writes[1].by = "main"
    /\ writes[2].by = "consumer"
    /\ Running = {1, 2}
    /\ Len(writes[2].rows) = 2
    /\ Len(buffer) = 0

\* C24: a flush check that finds the batch buffer empty, forced or not,
\* issues no bulk write and resets the time since the last flush; queue,
\* cache, batch buffer and everything else but that timer stay as they are.
C24_EmptyFlushCheck ==
    [][(ConsumerTimeout \/ MainWake \/ MainJoinFlush) /\ buffer = <<>> =>
          /\ writes' = writes
          /\ elapsed' = 0
          /\ UNCHANGED <<scanning, q, unfinished, last_seq_seen, buffer, item, nrows,
                         dropped>>]_vars

\* the forced flush check of the shutdown has found the batch buffer empty
C24_Witness ==
    /\ main_pc = "cancel"
    /\ writes = <<>>
    /\ buffer = <<>>
    /\ elapsed = 0

\* decode_payload of each delivered payload as received, and behind FF FF
DirectDecoded == [payload \in AdPayloads |-> decode_payload(payload)]

PrefixedDecoded == [payload \in AdPayloads |-> decode_payload(<<255, 255>> \o payload)]

\* the reading of the first attempt that succeeds, None when both fail
FirstSuccess(payload) ==
    IF DirectDecoded[payload] # None THEN DirectDecoded[payload] ELSE PrefixedDecoded[payload]

\* C25: on_detect decodes the manufacturer bytes as received and, only when
\* that gives nothing, the same bytes behind the prefix FF FF; the reading it
\* goes on with is that of the first attempt that succeeds; one advertisement
\* puts at most one row into the queue, with the sequence number of that
\* reading; when both attempts fail the advertisement is dropped and queue,
\* dedup cache and batch buffer stay as they are.
C25_TwoDecodeAttempts ==
    /\ [](\A ad \in Advertisements :
            ad[1] # "" /\ ad[2] # <<>> =>
                LET r == on_detect(ad[1], ad[2]) IN
                /\ AdDecoded[ad[2]] = FirstSuccess(ad[2])
                /\ r.outcome = "undecoded" <=> FirstSuccess(ad[2]) = None
                /\ r.outcome = "undecoded" => r.q = q /\ r.cache = last_seq_seen
                /\ r.outcome # "undecoded" => r.seq = FirstSuccess(ad[2]).seq
                /\ r.outcome = "enqueued" =>
                      /\ r.q = Append(q, r.q[Len(r.q)])
                      /\ r.q[Len(r.q)].seq = FirstSuccess(ad[2]).seq
                      /\ r.q[Len(r.q)].source = ad[1])
    /\ [][\A ad \in Advertisements :
             OnDetect(ad[1], ad[2]) =>
                 /\ Len(q') <= Len(q) + 1
                 /\ buffer' = buffer
                 /\ FirstSuccess(ad[2]) = None => UNCHANGED <<q, last_seq_seen, buffer>>
                 /\ q' # q => /\ q' = on_detect(ad[1], ad[2]).q
                              /\ q'[Len(q')].seq = FirstSuccess(ad[2]).seq]_vars

\* a variant-2 advertisement, which decodes only behind the prefix, is queued
C25_Witness ==
    /\ DirectDecoded[StrippedV2(1)] = None
    /\ PrefixedDecoded[StrippedV2(1)].kind = "V2"
    /\ DirectDecoded[PackV4(2)].kind = "V4"
    /\ Len(q) = 2
    /\ q[1].seq = 2
    /\ q[2] = [id |-> 2, source |-> "a", seq |-> 1]
    /\ nrows = 2

\* C27: when on_detect drops a row because the queue is full, the dedup
\* cache already holds the row's source and sequence number, so the same
\* advertisement coming next is dropped as a duplicate and changes nothing;
\* the dropped row is never queued, buffered or part of a bulk write.
C27_DroppedRowPoisonsCache ==
    /\ [][\A ad \in Advertisements :
             OnDetect(ad[1], ad[2]) /\ on_detect(ad[1], ad[2]).outcome = "full" =>
                 /\ q' = q
                 /\ (nrows + 1) \in dropped'
                 /\ HasKey(last_seq_seen', ad[1])
                 /\ Lookup(last_seq_seen', ad[1]) = on_detect(ad[1], ad[2]).seq
                 /\ IsDuplicateNow(ad)'
                 /\ on_detect(ad[1], ad[2])'.q = q'
                 /\ on_detect(ad[1], ad[2])'.cache = last_seq_seen']_vars
    /\ [](\A id \in dropped : WritesWith(id) = {} /\ id \notin Held)

\* sensor "b" was dropped at the full queue and is now taken for a duplicate
C27_Witness ==
    /\ nrows = 3
    /\ dropped = {3}
    /\ Len(q) = queue_max
    /\ \A i \in 1..Len(q) : q[i].source = "a"
    /\ Lookup(last_seq_seen, "b") = 1
    /\ IsDuplicateNow(<<"b", PackV4(1)>>)

\* every row on_detect has queued and that was not dropped since
KnownRows ==
    {q[i] : i \in 1..Len(q)} \cup {item[i] : i \in 1..Len(item)}
    \cup {buffer[i] : i \in 1..Len(buffer)}
    \cup UNION {{writes[i].rows[j] : j \in 1..Len(writes[i].rows)} : i \in 1..Len(writes)}

\* advertisements that pass every test of on_detect before the dedup filter
Readable == {ad \in Advertisements : ad[1] # "" /\ ad[2] # <<>> /\ AdDecoded[ad[2]] # None}

\* C28: the dedup filter knows only the last sequence number of a source: an
\* advertisement is dropped as a duplicate exactly when the cache holds its
\* source with the same sequence number, which then is the one of the last
\* row built for that source; any other sequence number is accepted, one
\* that was seen before the last included (a, b, a gives three rows).
C28_LastSeqOnly ==
    /\ [](\A ad \in Readable :
            LET seq == AdDecoded[ad[2]].seq IN
            /\ IsDuplicateNow(ad) <=>
                  HasKey(last_seq_seen, ad[1]) /\ Lookup(last_seq_seen, ad[1]) = seq
            /\ HasKey(last_seq_seen, ad[1]) /\ Lookup(last_seq_seen, ad[1]) # seq =>
                  BuildsRow(ad)
            /\ IsDuplicateNow(ad) /\ dropped = {} =>
                  \E r \in KnownRows :
                      /\ r.source = ad[1]
                      /\ r.seq = seq
                      /\ \A o \in KnownRows : o.source = ad[1] => o.id <= r.id)
    /\ [][\A ad \in Readable :
             OnDetect(ad[1], ad[2]) /\ BuildsRow(ad) =>
                 /\ HasKey(last_seq_seen', ad[1])
                 /\ Lookup(last_seq_seen', ad[1]) = AdDecoded[ad[2]].seq]_vars

\* sensor "a" sent 1, 2, 1 and all three were accepted
C28_Witness ==
    /\ dropped = {}
    /\ [id |-> 1, source |-> "a", seq |-> 1] \in KnownRows
    /\ [id |-> 2, source |-> "a", seq |-> 2] \in KnownRows
    /\ [id |-> 3, source |-> "a", seq |-> 1] \in KnownRows

\* C29: the batch buffer never holds more than batch_size rows and every
\* bulk write holds at least 1 and at most batch_size rows, whether the
\* consumer, the main loop or the shutdown started it.
C29_BatchSizes ==
    /\ Len(buffer) <= batch_size
    /\ \A i \in 1..Len(writes) :
          /\ writes[i].by \in {"consumer", "main", "final"}
          /\ 1 <= Len(writes[i].rows)
          /\ Len(writes[i].rows) <= batch_size

C29_Witness ==
    /\ Len(writes) = 2
    /\ writes[1].by = "consumer"
    /\ Len(writes[1].rows) = batch_size
    /\ writes[2].by = "final"
    /\ Len(writes[2].rows) = 1

====
